---- MODULE Spec2Model ----
(***************************************************************************)
(* Model of create_input.py: the fixed-column INPUT_RRTM generator.        *)
(*                                                                         *)
(* Text is a sequence of one-character strings.  An integer is a TLA+      *)
(* integer.  A float is a record [neg, ip, fr]: sign, integer part and     *)
(* fractional part in units of 10^-4; the values drawn below are decimal   *)
(* values whose rounding ties (if any) are exact binary fractions, so      *)
(* Python's correctly rounded '%f' is round-half-even on them.             *)
(* A dict is a function from its keys; an absent key is a key outside      *)
(* DOMAIN.  A raised exception is a result record with err # "".           *)
(***************************************************************************)
EXTENDS Integers, Sequences, FiniteSets, TLC

VARIABLES raw, outcome, cfg, pc, lines, content, written, outfile, exc

vars == <<raw, outcome, cfg, pc, lines, content, written, outfile, exc>>

----------------------------------------------------------------------------
(* Characters and decimal rendering                                        *)

Digits == <<"0", "1", "2", "3", "4", "5", "6", "7", "8", "9">>

DigitChars == {Digits[i] : i \in 1..10}

Spaces(n) == [i \in 1..n |-> " "]

RECURSIVE Pow10(_)
Pow10(n) == IF n = 0 THEN 1 ELSE 10 * Pow10(n - 1)

RECURSIVE NatToStr(_)
NatToStr(n) == IF n < 10 THEN <<Digits[n + 1]>>
               ELSE NatToStr(n \div 10) \o <<Digits[(n % 10) + 1]>>

\* str(int): sign and digits, nothing else.
IntToStr(v) == IF v < 0 THEN <<"-">> \o NatToStr(0 - v) ELSE NatToStr(v)

\* A natural number as exactly d digits, zero-padded on the left (d >= 0).
RECURSIVE ZeroPad(_, _)
ZeroPad(n, d) == IF d = 0 THEN <<>>
                 ELSE ZeroPad(n \div 10, d - 1) \o <<Digits[(n % 10) + 1]>>

\* Python's format width: pad on the left up to width, never truncate.
RJust(s, width) == IF Len(s) >= width THEN s ELSE Spaces(width - Len(s)) \o s

\* Python '{:.<decimals>f}' of a float value, without width (decimals <= 4,
\* the number of fractional digits a value carries).
FixedStr(v, decimals) ==
    LET unit == Pow10(4 - decimals)
        q    == v.fr \div unit
        rem  == v.fr % unit
        last == IF decimals = 0 THEN v.ip ELSE q
        up   == (2 * rem > unit) \/ (2 * rem = unit /\ last % 2 = 1)
        q1   == IF up THEN q + 1 ELSE q
        carry == q1 = Pow10(decimals)
        ipr  == IF carry THEN v.ip + 1 ELSE v.ip
        qr   == IF carry THEN 0 ELSE q1
    IN  (IF v.neg THEN <<"-">> ELSE <<>>)
        \o NatToStr(ipr)
        \o (IF decimals = 0 THEN <<>> ELSE <<".">> \o ZeroPad(qr, decimals))

IsZero(v) == v.ip = 0 /\ v.fr = 0

F(ip, fr) == [neg |-> FALSE, ip |-> ip, fr |-> fr]

----------------------------------------------------------------------------
(* Fortran fixed-format helpers                                            *)

fmt_int_ljust(value, width) ==
    LET s == IntToStr(value)
    IN  IF Len(s) >= width THEN s ELSE s \o Spaces(width - Len(s))

fmt_int(value, width) == RJust(IntToStr(value), width)

fmt_float_f(value, width, decimals) == RJust(FixedStr(value, decimals), width)

make_line(length) == Spaces(length)

\* place_str: [err, line]; writing past the end of the list is an IndexError.
place_str(line, col1, text) ==
    IF Len(text) > 0 /\ col1 - 1 + Len(text) > Len(line)
    THEN [err |-> "IndexError", line |-> line]
    ELSE [err |-> "",
          line |-> [i \in 1..Len(line) |->
                      IF i >= col1 /\ i < col1 + Len(text)
                      THEN text[i - col1 + 1] ELSE line[i]]]

RECURSIVE rstrip(_)
rstrip(s) == IF Len(s) > 0 /\ s[Len(s)] = " " THEN rstrip(SubSeq(s, 1, Len(s) - 1))
             ELSE s

line_to_str(line) == rstrip(line)

----------------------------------------------------------------------------
(* Dicts                                                                   *)

Has(d, k) == k \in DOMAIN d

Get(d, k, default) == IF k \in DOMAIN d THEN d[k] ELSE default

\* The keys of the model's universe that load_config drops: those starting
\* with "_" or ending in "_options" or "_note".
CommentKeys == {"_comment", "IATM_options", "RE_note"}

StripKeys(d) == [k \in DOMAIN d \ CommentKeys |-> d[k]]

\* strip_comments: recursive over dicts; every top-level value is a dict.
strip_comments(obj) == [k \in DOMAIN obj \ CommentKeys |-> StripKeys(obj[k])]

----------------------------------------------------------------------------
(* Record builders.  A builder is a list of steps, one per placement, in   *)
(* source order.  A step carries the field's declared column range lo..hi  *)
(* (from the builder's layout comments), the column the text is placed at  *)
(* and the text; err = "KeyError" when the lookup that feeds it raises.    *)

Step(field, kind, lo, hi, col, text) ==
    [err |-> "", field |-> field, kind |-> kind, lo |-> lo, hi |-> hi,
     col |-> col, text |-> text]

KeyErrorStep(field) ==
    [err |-> "KeyError", field |-> field, kind |-> "", lo |-> 0, hi |-> 0,
     col |-> 0, text |-> <<>>]

\* An integer field r[name] in I<width> at column lo.
IntStep(r, name, lo, width) ==
    IF Has(r, name)
    THEN Step(name, "I", lo, lo + width - 1, lo, fmt_int(r[name], width))
    ELSE KeyErrorStep(name)

Raised(e) == [err |-> e, text |-> <<>>]

Built(text) == [err |-> "", text |-> text]

\* Run the placements in order; the first exception ends the builder.
RECURSIVE RunSteps(_, _, _)
RunSteps(line, steps, i) ==
    IF i > Len(steps) THEN Built(line_to_str(line))
    ELSE IF steps[i].err # "" THEN Raised(steps[i].err)
    ELSE LET p == place_str(line, steps[i].col, steps[i].text)
         IN  IF p.err # "" THEN Raised(p.err)
             ELSE RunSteps(p.line, steps, i + 1)

\* RECORD 1.1: the two header lines, verbatim.
build_record_1_1(c) ==
    IF ~Has(c, "record_1_1") \/ ~Has(c["record_1_1"], "header")
       \/ ~Has(c["record_1_1"], "control_line")
    THEN [err |-> "KeyError", texts |-> <<>>]
    ELSE [err |-> "", texts |-> <<c["record_1_1"]["header"],
                                  c["record_1_1"]["control_line"]>>]

Steps_1_2(r) ==
    << IntStep(r, "IAER", 19, 2),
       IntStep(r, "IATM", 50, 1),
       IntStep(r, "IXSECT", 70, 1),
       IntStep(r, "NUMANGS", 84, 2),
       IntStep(r, "IOUT", 88, 3),
       IntStep(r, "IDRV", 92, 1),
       IntStep(r, "IMCA", 94, 1),
       IntStep(r, "ICLD", 95, 1) >>

build_record_1_2(c) ==
    IF ~Has(c, "record_1_2") THEN Raised("KeyError")
    ELSE RunSteps(make_line(95), Steps_1_2(c["record_1_2"]), 1)

Steps_1_4(r) ==
    LET semiss == Get(r, "SEMISS", <<>>)
    IN  << IF Has(r, "TBOUND")
           THEN Step("TBOUND", "F", 1, 10, 1, FixedStr(r["TBOUND"], 1))
           ELSE KeyErrorStep("TBOUND"),
           IntStep(r, "IEMIS", 12, 1),
           IntStep(r, "IREFLECT", 15, 1) >>
        \o [i \in 1..Len(semiss) |->
              Step("SEMISS", "F", 16 + (i - 1) * 5, 20 + (i - 1) * 5,
                   16 + (i - 1) * 5, fmt_float_f(semiss[i], 5, 2))]

build_record_1_4(c) ==
    IF ~Has(c, "record_1_4") THEN Raised("KeyError")
    ELSE RunSteps(make_line(95), Steps_1_4(c["record_1_4"]), 1)

Steps_3_1(r) ==
    LET re_val == Get(r, "RE", F(0, 0))
        co2mx  == Get(r, "CO2MX", F(0, 0))
    IN  << IntStep(r, "MODEL", 1, 5),
           IntStep(r, "IBMAX", 11, 5),
           IntStep(r, "NOPRNT", 21, 5),
           IntStep(r, "NMOL", 26, 5),
           IntStep(r, "IPUNCH", 31, 5),
           IntStep(r, "MUNITS", 39, 2),
           IF ~IsZero(re_val)
           THEN Step("RE", "F", 41, 50, 41, fmt_float_f(re_val, 10, 3))
           ELSE Step("RE", "F", 41, 50, 45, <<"0">>),
           IF ~IsZero(co2mx)
           THEN Step("CO2MX", "F", 71, 80, 71, fmt_float_f(co2mx, 10, 3))
           ELSE Step("CO2MX", "F", 71, 80, 71, <<"0">>) >>

build_record_3_1(c) ==
    IF ~Has(c, "record_3_1") THEN Raised("KeyError")
    ELSE RunSteps(make_line(80), Steps_3_1(c["record_3_1"]), 1)

Steps_3_2(r) ==
    << IF Has(r, "HBOUND")
       THEN Step("HBOUND", "F", 1, 10, 1, FixedStr(r["HBOUND"], 1))
       ELSE KeyErrorStep("HBOUND"),
       IF Has(r, "HTOA")
       THEN Step("HTOA", "F", 11, 20, 11, fmt_float_f(r["HTOA"], 10, 1))
       ELSE KeyErrorStep("HTOA") >>

build_record_3_2(c) ==
    IF ~Has(c, "record_3_2") THEN Raised("KeyError")
    ELSE RunSteps(make_line(20), Steps_3_2(c["record_3_2"]), 1)

Keys_3_3a == <<"AVTRAT", "TDIFF1", "TDIFF2", "ALTD1", "ALTD2">>

Steps_3_3a(r) ==
    [i \in 1..Len(Keys_3_3a) |->
       Step(Keys_3_3a[i], "F", 1 + (i - 1) * 10, 10 + (i - 1) * 10,
            1 + (i - 1) * 10,
            fmt_float_f(Get(r, Keys_3_3a[i], F(0, 0)), 10, 0))]

build_record_3_3a(c) ==
    IF ~Has(c, "record_3_3a") THEN Raised("KeyError")
    ELSE RunSteps(make_line(50), Steps_3_3a(c["record_3_3a"]), 1)

----------------------------------------------------------------------------
(* Configurations drawn as inputs                                          *)

\* Longest SEMISS list drawn; record 1.4 has room for 16 slots (16E5.3).
MaxSemiss == 17

Rep(v, n) == [i \in 1..n |-> v]

Header == <<"R", "R", "T", "M">>

ControlLine == <<"$", " ", "A", "T", "M">>

R11 == [header |-> Header, control_line |-> ControlLine]

R12(iaer, iatmv, iout, imca, icld) ==
    [IAER |-> iaer, IATM |-> iatmv, IXSECT |-> 0, NUMANGS |-> 0, IOUT |-> iout,
     IDRV |-> 0, IMCA |-> imca, ICLD |-> icld]

R12Set ==
    { R12(0, a, 0, 0, 0) : a \in {0, 1} }
    \cup { R12(100, 1, 0, 0, 0), R12(0, 1, 0, 12, 3), R12(0, 1, 0, 0, 10),
           R12(0, 0, 99, 0, 1) }
    \cup { [IAER |-> 0, IATM |-> 1, IXSECT |-> 0, NUMANGS |-> 0, IOUT |-> 0,
            IDRV |-> 0, IMCA |-> 0] }
    \cup { [IAER |-> 0, IATM |-> 0, IATM_options |-> 0, IXSECT |-> 0,
            NUMANGS |-> 0, IOUT |-> 0, IDRV |-> 0, IMCA |-> 0, ICLD |-> 0] }

SemissSet ==
    { Rep(F(0, 9800), n) : n \in {0, 1, 2, 16, MaxSemiss} }
    \cup { <<F(0, 0)>>, <<F(100, 0), F(0, 9800)>>, <<F(0, 1250), F(1, 0)>> }

R14Set ==
    { [TBOUND |-> F(288, 0), IEMIS |-> 1, IREFLECT |-> 0, SEMISS |-> sm] :
        sm \in SemissSet }
    \cup { [TBOUND |-> F(288, 0), IEMIS |-> 1, IREFLECT |-> 0],
           [TBOUND |-> F(294, 2500), IEMIS |-> 2, IREFLECT |-> 10,
            SEMISS |-> <<F(0, 9800)>>],
           [TBOUND |-> F(300, 0), IEMIS |-> 1000, IREFLECT |-> 1,
            SEMISS |-> <<>>] }

R31(ibmaxv, re, co2) ==
    [MODEL |-> 1, IBMAX |-> ibmaxv, NOPRNT |-> 0, NMOL |-> 7, IPUNCH |-> 1,
     MUNITS |-> 0, RE |-> re, CO2MX |-> co2]

R31Set ==
    { R31(b, re, co2) : b \in {0, 5},
                        re \in {F(0, 0), F(6371, 2300)},
                        co2 \in {F(0, 0), F(400, 0)} }
    \cup { R31(0, F(1234567, 0), F(0, 0)) }
    \cup { [MODEL |-> 1, IBMAX |-> 0, NOPRNT |-> 0, NMOL |-> 7, IPUNCH |-> 1,
            MUNITS |-> 0, RE_note |-> 0] }

R32Set ==
    { [HBOUND |-> hb, HTOA |-> F(70, 0)] : hb \in {F(0, 0), F(123456789, 0)} }
    \cup { [HBOUND |-> F(0, 2500), HTOA |-> F(70, 1250)] }

R33aSet ==
    { [AVTRAT |-> F(1, 5000), TDIFF1 |-> F(5, 0), TDIFF2 |-> F(8, 0),
       ALTD1 |-> F(0, 0), ALTD2 |-> F(100, 0)],
      [AVTRAT |-> F(2, 5000)] }

\* A configuration file's contents: record_1_1, record_1_2 and record_1_4,
\* and any of the records 3.x; opt holds the records 3.x that are present.
Config(r12, r14, opt) ==
    [k \in {"record_1_1", "record_1_2", "record_1_4"} \cup DOMAIN opt |->
       CASE k = "record_1_1" -> R11
         [] k = "record_1_2" -> r12
         [] k = "record_1_4" -> r14
         [] OTHER -> opt[k]]

Opt3Set ==
    { [k \in {"record_3_1", "record_3_2", "record_3_3a"} |->
         CASE k = "record_3_1" -> r31
           [] k = "record_3_2" -> r32
           [] OTHER -> r33] : r31 \in R31Set, r32 \in R32Set, r33 \in R33aSet }
    \cup { [k \in {"record_3_1", "record_3_2"} |->
             IF k = "record_3_1" THEN r31 ELSE r32] :
             r31 \in R31Set, r32 \in R32Set }
    \cup { [k \in {"record_3_1"} |-> r31] : r31 \in R31Set }
    \cup { [k \in {} |-> R11] }

WithComment(c) ==
    [k \in DOMAIN c \cup {"_comment"} |-> IF k = "_comment" THEN R11 ELSE c[k]]

RawSet ==
    { Config(r12, r14, opt) : r12 \in R12Set, r14 \in R14Set, opt \in Opt3Set }
    \cup { [k \in {"record_1_1"} |-> R11],
           WithComment(Config(R12(0, 1, 0, 0, 0),
                              [TBOUND |-> F(288, 0), IEMIS |-> 1, IREFLECT |-> 0],
                              [k \in {} |-> R11])) }

Outcomes == {"ok", "FileNotFoundError", "JSONDecodeError"}

----------------------------------------------------------------------------
(* main() and generate_input_rrtm(), one action per statement              *)

InitWith(rawset) ==
    /\ raw \in rawset
    /\ outcome \in Outcomes
    /\ cfg = [k \in {} |-> R11]
    /\ pc = "load"
    /\ lines = <<>>
    /\ content = <<>>
    /\ written = FALSE
    /\ outfile = <<>>
    /\ exc = ""

Init == InitWith(RawSet)

\* An uncaught exception unwinds main(): nothing else runs.
Raise(e) ==
    /\ pc' = "raised"
    /\ exc' = e
    /\ UNCHANGED <<raw, outcome, cfg, lines, content, written, outfile>>

Emit(texts, next) ==
    /\ lines' = lines \o texts
    /\ pc' = next
    /\ UNCHANGED <<raw, outcome, cfg, content, written, outfile, exc>>

Goto(next) ==
    /\ pc' = next
    /\ UNCHANGED <<raw, outcome, cfg, lines, content, written, outfile, exc>>

\* cfg = load_config(args.config); both caught errors end in sys.exit(1).
main_load ==
    /\ pc = "load"
    /\ IF outcome = "ok"
       THEN /\ cfg' = strip_comments(raw)
            /\ pc' = "record_1_1"
            /\ UNCHANGED <<raw, outcome, lines, content, written, outfile, exc>>
       ELSE /\ pc' = "exit1"
            /\ exc' = outcome
            /\ UNCHANGED <<raw, outcome, cfg, lines, content, written, outfile>>

gen_record_1_1 ==
    /\ pc = "record_1_1"
    /\ LET b == build_record_1_1(cfg)
       IN  IF b.err # "" THEN Raise(b.err) ELSE Emit(b.texts, "record_1_2")

gen_record_1_2 ==
    /\ pc = "record_1_2"
    /\ LET b == build_record_1_2(cfg)
       IN  IF b.err # "" THEN Raise(b.err) ELSE Emit(<<b.text>>, "record_1_4")

gen_record_1_4 ==
    /\ pc = "record_1_4"
    /\ LET b == build_record_1_4(cfg)
       IN  IF b.err # "" THEN Raise(b.err) ELSE Emit(<<b.text>>, "iatm")

GateIATM_always(v) == TRUE

GateIATM(v) == v = 1

\* iatm = cfg["record_1_2"]["IATM"]; if iatm == 1
gen_gate_iatm ==
    /\ pc = "iatm"
    /\ IF GateIATM(cfg["record_1_2"]["IATM"])
       THEN Goto("record_3_1") ELSE Goto("trailer")

gen_record_3_1 ==
    /\ pc = "record_3_1"
    /\ LET b == build_record_3_1(cfg)
       IN  IF b.err # "" THEN Raise(b.err) ELSE Emit(<<b.text>>, "record_3_2")

gen_record_3_2 ==
    /\ pc = "record_3_2"
    /\ LET b == build_record_3_2(cfg)
       IN  IF b.err # "" THEN Raise(b.err) ELSE Emit(<<b.text>>, "ibmax")

GateIBMAX_nonzero(v) == v # 0

GateIBMAX(v) == v = 0

\* ibmax = cfg["record_3_1"].get("IBMAX", 0); if ibmax == 0
gen_gate_ibmax ==
    /\ pc = "ibmax"
    /\ IF GateIBMAX(Get(cfg["record_3_1"], "IBMAX", 0))
       THEN Goto("record_3_3a") ELSE Goto("trailer")

gen_record_3_3a ==
    /\ pc = "record_3_3a"
    /\ LET b == build_record_3_3a(cfg)
       IN  IF b.err # "" THEN Raise(b.err) ELSE Emit(<<b.text>>, "trailer")

\* '\n'.join(ls) + '\n' for a non-empty list: every entry followed by "\n".
RECURSIVE JoinLines(_)
JoinLines(ls) == IF ls = <<>> THEN <<>>
                 ELSE Head(ls) \o <<"\n">> \o JoinLines(Tail(ls))

\* lines.append(""); return '\n'.join(lines) + '\n'
gen_trailer ==
    /\ pc = "trailer"
    /\ lines' = Append(lines, <<>>)
    /\ content' = JoinLines(lines')
    /\ pc' = "write"
    /\ UNCHANGED <<raw, outcome, cfg, written, outfile, exc>>

\* with open(args.output, 'w') as f: f.write(content)
main_write ==
    /\ pc = "write"
    /\ written' = TRUE
    /\ outfile' = content
    /\ pc' = "print"
    /\ UNCHANGED <<raw, outcome, cfg, lines, content, exc>>

\* The status lines read cfg['record_3_1']['MODEL'], cfg['record_1_4']
\* ['TBOUND'] and cfg['record_1_2']['IOUT'].
main_print ==
    /\ pc = "print"
    /\ IF /\ Has(cfg, "record_3_1") /\ Has(cfg["record_3_1"], "MODEL")
          /\ Has(cfg, "record_1_4") /\ Has(cfg["record_1_4"], "TBOUND")
          /\ Has(cfg, "record_1_2") /\ Has(cfg["record_1_2"], "IOUT")
       THEN Goto("done")
       ELSE Raise("KeyError")

Next ==
    \/ main_load
    \/ gen_record_1_1
    \/ gen_record_1_2
    \/ gen_record_1_4
    \/ gen_gate_iatm
    \/ gen_record_3_1
    \/ gen_record_3_2
    \/ gen_gate_ibmax
    \/ gen_record_3_3a
    \/ gen_trailer
    \/ main_write
    \/ main_print

Spec == Init /\ [][Next]_vars

----------------------------------------------------------------------------
(* A second family of inputs: every record_1_2 over a set of flag values,  *)
(* the other records fixed.                                                *)

\* Largest flag value drawn for record_1_2.
MaxFlag == 9

FlagNames == {"IAER", "IATM", "IXSECT", "NUMANGS", "IOUT", "IDRV", "IMCA", "ICLD"}

FlagVals == {0, 1, MaxFlag}

R14Default == [TBOUND |-> F(288, 0), IEMIS |-> 1, IREFLECT |-> 0,
               SEMISS |-> <<F(0, 9800), F(0, 9800)>>]

Opt3Default ==
    [k \in {"record_3_1", "record_3_2", "record_3_3a"} |->
       CASE k = "record_3_1" -> R31(0, F(0, 0), F(0, 0))
         [] k = "record_3_2" -> [HBOUND |-> F(0, 0), HTOA |-> F(70, 0)]
         [] OTHER -> [AVTRAT |-> F(1, 5000)]]

RawSetR12 ==
    { Config(r12, R14Default, opt) :
        r12 \in [FlagNames -> FlagVals],
        opt \in {Opt3Default, [k \in {} |-> R11]} }
    \cup { Config(R12(0, 1, 1000, 0, 0), R14Default, Opt3Default),
           Config(R12(10, 1, 0, 10, 0), R14Default, Opt3Default) }

InitR12 == InitWith(RawSetR12)

SpecR12 == InitR12 /\ [][Next]_vars

----------------------------------------------------------------------------
(* Reading the emitted lines                                               *)

\* The character at 1-based column c of a finalized (right-trimmed) line.
Col(line, c) == IF c <= Len(line) THEN line[c] ELSE " "

Slot(line, lo, hi) == [i \in 1..(hi - lo + 1) |-> Col(line, lo + i - 1)]

\* generate_input_rrtm has returned its text.
Generated == pc \in {"write", "print", "done"} \/ written

Emitted_1_2 == Len(lines) >= 3

Emitted_1_4 == Len(lines) >= 4

Emitted_3_1 == Len(lines) >= 5 /\ cfg["record_1_2"]["IATM"] = 1

Emitted_3_2 == Len(lines) >= 6 /\ cfg["record_1_2"]["IATM"] = 1

Emitted_3_3a == /\ Len(lines) >= 7 /\ cfg["record_1_2"]["IATM"] = 1
                /\ cfg["record_3_1"]["IBMAX"] = 0

\* The placement lists of the records whose line has been emitted.
EmittedSteps ==
    (IF Emitted_1_2 THEN {Steps_1_2(cfg["record_1_2"])} ELSE {})
    \cup (IF Emitted_1_4 THEN {Steps_1_4(cfg["record_1_4"])} ELSE {})
    \cup (IF Emitted_3_1 THEN {Steps_3_1(cfg["record_3_1"])} ELSE {})
    \cup (IF Emitted_3_2 THEN {Steps_3_2(cfg["record_3_2"])} ELSE {})
    \cup (IF Emitted_3_3a THEN {Steps_3_3a(cfg["record_3_3a"])} ELSE {})

\* The text placed for a step is wider than its declared column range.
OverWide(st) == Len(st.text) > st.hi - st.lo + 1

CountNewlines(s) == Cardinality({i \in 1..Len(s) : s[i] = "\n"})

----------------------------------------------------------------------------
(* Claims                                                                  *)

\* C1 (as stated): with IATM = 1 and IBMAX = 0 the generated output has
\* exactly 9 lines.
C1_NineLines ==
    (Generated /\ Emitted_3_1 /\ cfg["record_3_1"]["IBMAX"] = 0)
        => Len(lines) = 9

\* C1 (amended): with IATM = 1 and IBMAX = 0 the generated output is exactly
\* 8 lines, in this order: the 2 header lines, the record 1.2, 1.4, 3.1, 3.2
\* and 3.3A lines and one empty line; the text is each of them followed by a
\* newline.
C1_EightLines ==
    (Generated /\ Emitted_3_1 /\ cfg["record_3_1"]["IBMAX"] = 0)
        => /\ lines = << cfg["record_1_1"]["header"],
                         cfg["record_1_1"]["control_line"],
                         build_record_1_2(cfg).text,
                         build_record_1_4(cfg).text,
                         build_record_3_1(cfg).text,
                         build_record_3_2(cfg).text,
                         build_record_3_3a(cfg).text,
                         <<>> >>
           /\ Len(lines) = 8
           /\ CountNewlines(content) = 8
           /\ Len(content) > 1 /\ SubSeq(content, Len(content) - 1, Len(content))
                                     = <<"\n", "\n">>

C1_Witness ==
    /\ pc = "done" /\ Emitted_3_1 /\ cfg["record_3_1"]["IBMAX"] = 0
    /\ Len(lines) = 8 /\ outfile = content

\* C2: with IATM = 0 no record 3.1, 3.2 or 3.3A line is emitted, whatever
\* IBMAX is and whether or not records 3.x are present: the output is the 2
\* header lines, the control-flags line, the surface-properties line and the
\* empty line.
C2_NoAtmosphereLines ==
    (Generated /\ cfg["record_1_2"]["IATM"] = 0)
        => /\ lines = << cfg["record_1_1"]["header"],
                         cfg["record_1_1"]["control_line"],
                         build_record_1_2(cfg).text,
                         build_record_1_4(cfg).text,
                         <<>> >>
           /\ CountNewlines(content) = 5

C2_Witness ==
    /\ pc = "done" /\ cfg["record_1_2"]["IATM"] = 0
    /\ Has(cfg, "record_3_2") /\ Has(cfg, "record_3_3a")
    /\ cfg["record_3_1"]["IBMAX"] = 0
    /\ Len(lines) = 5

\* C3: a run of main() that ends in an error (exit status 1 or an uncaught
\* exception) has not written the output file.
C3_ErrorMeansNoFile == pc \in {"raised", "exit1"} => ~written

\* C4: an integer field whose rendering needs more characters than its
\* width is never placed into an emitted line.
C4_IntOverflowFails ==
    \A S \in EmittedSteps : \A i \in DOMAIN S :
        S[i].kind = "I" => ~OverWide(S[i])

ExactlyOneZero(slot) ==
    \E c \in DOMAIN slot :
        slot[c] = "0" /\ \A d \in DOMAIN slot \ {c} : slot[d] = " "

\* C5: in the record 3.1 line, a zero (or absent) RE leaves exactly one "0"
\* and blanks in columns 41-50, a zero (or absent) CO2MX exactly one "0" and
\* blanks in columns 71-80, independently; a non-zero value fills its slot
\* with a ten-character fixed-point text with 3 fractional digits.
C5_ZeroFallback ==
    Emitted_3_1 =>
        LET r    == cfg["record_3_1"]
            line == lines[5]
            Ok(v, lo, hi) ==
                IF IsZero(v) THEN ExactlyOneZero(Slot(line, lo, hi))
                ELSE /\ Len(FixedStr(v, 3)) <= 10
                     /\ Slot(line, lo, hi) = RJust(FixedStr(v, 3), 10)
        IN  /\ Ok(Get(r, "RE", F(0, 0)), 41, 50)
            /\ Ok(Get(r, "CO2MX", F(0, 0)), 71, 80)

FlagCol ==
    [f \in FlagNames |->
       CASE f = "IAER" -> 20 [] f = "IATM" -> 50 [] f = "IXSECT" -> 70
         [] f = "NUMANGS" -> 85 [] f = "IOUT" -> 90 [] f = "IDRV" -> 92
         [] f = "IMCA" -> 94 [] OTHER -> 95]

SingleDigitFlags(r) == \A f \in FlagNames : r[f] \in 0..9

\* C6: when the eight flags of record_1_2 are single decimal digits, the
\* control-flags line has them at columns 20, 50, 70, 85, 90, 92, 94 and 95,
\* a space at every other column, and length 95 after trimming.
C6_ControlFlagColumns ==
    (Emitted_1_2 /\ SingleDigitFlags(cfg["record_1_2"])) =>
        LET r == cfg["record_1_2"]
        IN  /\ Len(lines[3]) = 95
            /\ \A c \in 1..95 :
                  lines[3][c] =
                    IF \E f \in FlagNames : FlagCol[f] = c
                    THEN Digits[r[CHOOSE f \in FlagNames : FlagCol[f] = c] + 1]
                    ELSE " "

C6_Witness ==
    /\ pc = "done" /\ SingleDigitFlags(cfg["record_1_2"])
    /\ cfg["record_1_2"]["IAER"] = 9 /\ cfg["record_1_2"]["ICLD"] = 0
    /\ cfg["record_1_2"]["IOUT"] = 1
    /\ lines[3][20] = "9" /\ lines[3][90] = "1" /\ lines[3][95] = "0"

\* C7: the record 1.4 line has the TBOUND text (one fractional digit) from
\* column 1, the IEMIS digit at column 12, the IREFLECT digit at column 15
\* and the k-th SEMISS value as a 5-character text with 2 fractional digits
\* in columns 16+5k .. 20+5k.
C7_SurfaceColumns ==
    Emitted_1_4 =>
        LET r      == cfg["record_1_4"]
            line   == lines[4]
            tb     == FixedStr(r["TBOUND"], 1)
            semiss == Get(r, "SEMISS", <<>>)
        IN  /\ Slot(line, 1, Len(tb)) = tb
            /\ r["IEMIS"] \in 0..9 => Col(line, 12) = Digits[r["IEMIS"] + 1]
            /\ r["IREFLECT"] \in 0..9 => Col(line, 15) = Digits[r["IREFLECT"] + 1]
            /\ \A k \in 0..(Len(semiss) - 1) :
                  /\ Len(FixedStr(semiss[k + 1], 2)) <= 5
                  /\ Slot(line, 16 + 5 * k, 20 + 5 * k)
                        = RJust(FixedStr(semiss[k + 1], 2), 5)

\* C8: in the record 3.2 line HBOUND is rendered with one fractional digit
\* and HTOA (columns 11-20) with three fractional digits.
C8_AltitudeDecimals ==
    Emitted_3_2 =>
        LET r    == cfg["record_3_2"]
            line == lines[6]
            hb   == FixedStr(r["HBOUND"], 1)
        IN  /\ Len(hb) <= 10 => Slot(line, 1, Len(hb)) = hb
            /\ Len(hb) <= 10 => Col(line, Len(hb) - 1) = "."
            /\ Col(line, 17) = "."
            /\ Slot(line, 11, 20) = RJust(FixedStr(r["HTOA"], 3), 10)

\* C9: build_record_1_4 completes without error for a SEMISS list of any
\* length n >= 0 and returns one line holding all n values in 5-character
\* slots from column 16.
C9_AnySemissLength ==
    /\ (pc = "raised" /\ Len(lines) = 3) => exc # "IndexError"
    /\ Emitted_1_4 =>
          \A k \in 0..(Len(Get(cfg["record_1_4"], "SEMISS", <<>>)) - 1) :
              Col(lines[4], 20 + 5 * k) \in DigitChars

\* The columns a step writes.
Written(st) == st.col .. (st.col + Len(st.text) - 1)

\* C10: in every emitted line each field's characters lie within the
\* field's declared column range and no column is written by two fields.
C10_NoFieldOverlap ==
    \A S \in EmittedSteps :
        /\ \A i \in DOMAIN S : Written(S[i]) \subseteq S[i].lo .. S[i].hi
        /\ \A i, j \in DOMAIN S :
              i # j => Written(S[i]) \cap Written(S[j]) = {}

====
